---------------------------- MODULE Spec2Model ----------------------------
(***************************************************************************)
(* State-machine model of the chat gateway in src/backend/app.             *)
(*                                                                         *)
(* One request task is one element of Reqs.  A task runs from one          *)
(* suspension point (an await that really suspends, or a yield of an       *)
(* async generator) to the next in one action: asyncio runs the code       *)
(* between two suspension points without interleaving.                     *)
(*                                                                         *)
(* Library behaviour the handlers depend on is modelled as the libraries   *)
(* implement it:                                                           *)
(*  - aiolimiter.AsyncLimiter(max_rate, time_period) is a leaky bucket of  *)
(*    capacity max_rate that drains max_rate/time_period per time unit;    *)
(*    "async with limiter" acquires on entry and does nothing on exit.     *)
(*  - pybreaker.CircuitBreaker used as a plain decorator runs the          *)
(*    synchronous CircuitBreaker.call: it calls the function and records   *)
(*    a failure only if that call raises.  Calling an "async def" function *)
(*    returns a coroutine (or async generator) object and cannot raise.    *)
(*  - tenacity.retry picks its asynchronous retry loop only when the       *)
(*    decorated callable is a coroutine function; the breaker's wrapper    *)
(*    is an ordinary function, so the synchronous loop is used, and an     *)
(*    attempt fails only if the wrapper raises.                            *)
(*  - asyncio.timeout cancels the task once, at the await it is suspended  *)
(*    on; CancelledError is a BaseException, so "except Exception" does    *)
(*    not catch it, and leaving the timeout block turns it into            *)
(*    TimeoutError.                                                        *)
(*  - The deadline cancels the task wherever it is suspended.  While a     *)
(*    generator is suspended at a yield, the task is in StreamingResponse, *)
(*    awaiting the send of the event: CancelledError is raised there,      *)
(*    outside the timeout block, and the abandoned generator runs its      *)
(*    finally block when it is closed.                                     *)
(***************************************************************************)
EXTENDS Integers, Sequences, FiniteSets, TLC

\* ------------------------------------------------------------------ bounds
MaxTime == 121          \* the clock stops here
MaxChunks == 3          \* chunks one provider stream delivers at most
MaxConvOps == 1         \* requests to the conversation endpoints
MaxArrivals == 4        \* requests entering acquire() in the limiter specification
TickStep == 10          \* the clock advances in steps of this many time units

\* ------------------------------------------------------- program constants
TIME_PERIOD == 60       \* AsyncLimiter(rate, time_period=60)
MinRate == 1            \* max(1, settings.RATE_LIMIT_PER_MINUTE)
CB_FAIL_MAX == 2        \* settings.CB_FAIL_MAX
CB_RESET_TIMEOUT == 60  \* settings.CB_RESET_TIMEOUT
StopAfterAttempt == 4   \* stop_after_attempt(4)
TitleLimit == 100       \* msg.content[:100]
IDEMPOTENCY_TTL_SECONDS == 600  \* settings.IDEMPOTENCY_TTL_SECONDS

None == "None"

Reqs == {"r1", "r2"}
\* X-API-Key header values; an absent or empty header becomes "public"
Headers == {None, "", "alice", "bob"}
Keys == {"public", "alice", "bob"}
IdemKeys == {"K"}
ConvIds == {"c1", "c2"}
Exceptions == {"boom", "secret"}

VARIABLES
    now,            \* the event loop's clock
    rate_setting,   \* settings.RATE_LIMIT_PER_MINUTE
    usage_url,      \* whether settings.USAGE_CALLBACK_URL is set
    limiters,       \* rate_limit._limiters: a dict key -> [level, last_check]
    arrivals,       \* limiter specification: calls of acquire() so far
    waiting,        \* limiter specification: key -> tasks suspended in acquire()
    admitted,       \* history: the <<key, time>> of every admission
    cb_state,       \* openai_breaker: "closed", "open", "half-open"
    cb_counter,     \* openai_breaker: consecutive failures it has recorded
    cb_opened_at,   \* openai_breaker: when it opened
    consec_fail,    \* history: provider failures since the last provider success
    contacts,       \* history: calls that reached the upstream provider
    memory_cache,   \* idempotency store: a dict key -> [raw, at]
    conversations,  \* table conversation: a dict id -> [owner, title, updated_at]
    chat_messages,  \* table chatmessage: a sequence of [conv, role, content, rid]
    db_clock,       \* datetime.utcnow() as seen by the tables
    pc,             \* request -> where its task is suspended
    rq,             \* request -> the request it serves
    loc,            \* request -> the handler's local variables
    events,         \* request -> the SSE events its response has delivered
    response,       \* request -> the HTTP response (status 0: none yet)
    usage_log,      \* history: the usage reports started, in order
    conv_ops,       \* conversation endpoints: requests served so far
    conv_resp       \* conversation endpoints: the last request and its response

vars == << now, rate_setting, usage_url, limiters, arrivals, waiting, admitted,
           cb_state, cb_counter, cb_opened_at, consec_fail, contacts,
           memory_cache, conversations, chat_messages, db_clock,
           pc, rq, loc, events, response, usage_log, conv_ops, conv_resp >>

limiterVars == << limiters, arrivals, waiting, admitted >>
breakerVars == << cb_state, cb_counter, cb_opened_at >>
dbVars == << conversations, chat_messages, db_clock >>
taskVars == << pc, rq, loc, events, response >>
convVars == << conv_ops, conv_resp >>

Max(a, b) == IF a >= b THEN a ELSE b

\* d[k] = v on a dict, the key added when it is new
Put(d, k, v) == [x \in DOMAIN d \cup {k} |-> IF x = k THEN v ELSE d[x]]

\* del d[k]
Del(d, k) == [x \in DOMAIN d \ {k} |-> d[x]]

EmptyDict == [x \in {} |-> 0]

\* ------------------------------------------------------------ rate_limit.py
\* Levels are kept in units of 1/TIME_PERIOD of a request, so that the bucket's
\* drain of rate/TIME_PERIOD per time unit is the integer `rate` per time unit.
Rate == Max(MinRate, rate_setting)

Capacity == Rate * TIME_PERIOD

OneRequest == TIME_PERIOD

\* AsyncLimiter(max_rate, time_period): a new object, told from the others by
\* `id`, its place in the order of creation
NewLimiter ==
    [level |-> 0, last_check |-> 0, id |-> Cardinality(DOMAIN limiters) + 1]

\* The registry entry is replaced on every call
get_limiter_always_new(key) == NewLimiter

\* get_limiter: the registry entry of `key`, created on first use
get_limiter(key) ==
    IF key \notin DOMAIN limiters THEN NewLimiter ELSE limiters[key]

\* The bucket never drains
Leak_NoDrain(lim) == [lim EXCEPT !.last_check = now]

\* AsyncLimiter._leak: the level after draining for the time since last_check
Leak(lim) ==
    [lim EXCEPT !.level = Max(lim.level - (now - lim.last_check) * Rate, 0),
                !.last_check = now]

\* AsyncLimiter.has_capacity(1)
has_capacity(lim) == Leak(lim).level + OneRequest <= Capacity

\* AsyncLimiter.acquire once it has capacity: the level rises by one request
Acquired(lim) == [Leak(lim) EXCEPT !.level = @ + OneRequest]

\* "async with get_limiter(api_key)": it goes on only when the bucket has room
Admit(key) ==
    /\ has_capacity(get_limiter(key))
    /\ limiters' = Put(limiters, key, Acquired(get_limiter(key)))
    /\ admitted' = Append(admitted, <<key, now>>)

\* ------------------------------------------------- providers/openai_provider.py
\* What calling the decorated function raises at the call itself.  generate is an
\* "async def" and generate_stream an async generator function: the call builds
\* the coroutine (the generator) and returns it, the body has not run yet.
CallRaises(outcome) == FALSE

\* CircuitOpenState.before_call: open and the cool-down has not elapsed
BreakerRejects ==
    cb_state = "open" /\ now < cb_opened_at + CB_RESET_TIMEOUT

\* The state the call is made in: an open breaker whose cool-down has elapsed
\* turns half-open first
TrialState == IF cb_state = "open" THEN "half-open" ELSE cb_state

\* CircuitBreaker.call on a call that is let through: _handle_error when the
\* call raised (the closed breaker opens at fail_max, the half-open one at
\* once), else _handle_success (the counter is reset, the half-open breaker
\* closes)
BreakerRecords(raised) ==
    IF raised
    THEN /\ cb_counter' = cb_counter + 1
         /\ IF TrialState = "half-open" \/ cb_counter + 1 >= CB_FAIL_MAX
            THEN cb_state' = "open" /\ cb_opened_at' = now
            ELSE cb_state' = TrialState /\ cb_opened_at' = cb_opened_at
    ELSE /\ cb_counter' = 0
         /\ cb_state' = "closed"
         /\ cb_opened_at' = cb_opened_at

\* The retry loop awaits every call and uses up its attempts on a failure
AttemptsMade_All(raised) == StopAfterAttempt

\* The attempts tenacity's loop makes around the breaker's wrapper: it calls
\* again, up to stop_after_attempt(4), only after a call that raised
AttemptsMade(raised) == IF raised THEN StopAfterAttempt ELSE 1

\* provider.generate(req) / provider.generate_stream(req) up to the object it
\* returns: the retry loop around the breaker around the call.  A rejecting
\* breaker raises CircuitBreakerError on every attempt and contacts nobody.
CallProvider(outcome) ==
    IF BreakerRejects
    THEN UNCHANGED breakerVars
    ELSE BreakerRecords(CallRaises(outcome))

\* ------------------------------------------------------------------ crud.py
DB == [c |-> conversations, m |-> chat_messages, t |-> db_clock]

\* uuid4(): an id no conversation has
FreshIds(db) == ConvIds \ DOMAIN db.c

\* create_conversation
create_conversation(db, id, title, api_key_hash) ==
    [db EXCEPT !.c = Put(db.c, id, [owner |-> api_key_hash, title |-> title,
                                    updated_at |-> db.t]),
               !.t = @ + 1]

\* create_chat_message: the message is added, and the conversation's updated_at
\* is bumped when the conversation exists
create_chat_message(db, conv, role, content, rid) ==
    [db EXCEPT !.m = Append(db.m, [conv |-> conv, role |-> role,
                                   content |-> content, rid |-> rid]),
               !.c = IF conv \in DOMAIN db.c
                     THEN [db.c EXCEPT ![conv].updated_at = db.t]
                     ELSE db.c,
               !.t = @ + 1]

\* update_conversation with a title
update_conversation(db, conv, title) ==
    [db EXCEPT !.c = [db.c EXCEPT ![conv].title = title,
                                  ![conv].updated_at = db.t],
               !.t = @ + 1]

\* delete_conversation: the row and, by cascade_delete, its messages
delete_conversation(db, conv) ==
    [db EXCEPT !.c = Del(db.c, conv),
               !.m = SelectSeq(db.m, LAMBDA x : x.conv # conv)]

\* get_chat_messages: the messages of a conversation, in creation order
get_chat_messages(db, conv) == SelectSeq(db.m, LAMBDA x : x.conv = conv)

SetDB(db) ==
    /\ conversations' = db.c
    /\ chat_messages' = db.m
    /\ db_clock' = db.t

\* str(hash(api_key)): a non-empty decimal string
KeyHash(key) ==
    CASE key = "public" -> "7001"
      [] key = "alice" -> "7002"
      [] OTHER -> "7003"

\* x_api_key or "public"
ApiKey(header) == IF header \in {None, ""} THEN "public" ELSE header

\* ------------------------------------------------------- utils/idempotency.py
\* json.dumps / json.loads of a response body
Dumps(body) == <<"json", body>>

Loads(raw) == raw[2]

\* TTLCache / setex: an entry is gone once its time to live has passed
Live(cache, key) ==
    key \in DOMAIN cache /\ now < cache[key].at + IDEMPOTENCY_TTL_SECONDS

\* get_cached_response finds a body under "idemp:<key>"
CacheHit(key) == Live(memory_cache, key)

\* get_cached_response on a hit
get_cached_response(key) == Loads(memory_cache[key].raw)

\* _redis_set: the value is stored under the key, whatever was there
redis_set(cache, key, raw) == Put(cache, key, [raw |-> raw, at |-> now])

\* set_cached_response
set_cached_response(key, body) ==
    memory_cache' = redis_set(memory_cache, key, Dumps(body))

\* ---------------------------------------------------------- services/router.py
\* A model id is a string, kept as the sequence of its characters
Prefix == <<"o", "p", "e", "n", "a", "i", ":">>

\* str.startswith
startswith(s, pre) == Len(s) >= Len(pre) /\ SubSeq(s, 1, Len(pre)) = pre

\* The prefix is put in front of every id
resolve_provider_always_prefix(model) ==
    [provider |-> "OpenAIProvider", normalized |-> Prefix \o model]

\* resolve_provider: (provider, normalized_model)
resolve_provider(model) ==
    IF startswith(model, Prefix)
    THEN [provider |-> "OpenAIProvider", normalized |-> model]
    ELSE [provider |-> "OpenAIProvider", normalized |-> Prefix \o model]

\* The model id the requests of most specifications name
DefaultModel == <<"g", "4">>

\* ------------------------------------------------------ api/routes/messages.py
NoBody == [id |-> 0, content |-> <<>>, conversation_id |-> None]

NoResponse == [status |-> 0, body |-> NoBody]

NoRequest ==
    [endpoint |-> None, api_key |-> None, idem_key |-> None, stream |-> FALSE,
     conversation_id |-> None, messages |-> <<>>, model |-> <<>>]

LocInit ==
    [conversation_id |-> None, tokens |-> 0, full_content |-> <<>>,
     pulled |-> 0, expired |-> FALSE, body |-> NoBody, attempts |-> 0,
     res_id |-> 0, outcome |-> None, saved |-> FALSE, saved_at |-> 0,
     aborted |-> FALSE, hit |-> FALSE, error_class |-> None,
     provider |-> None, model |-> <<>>]

\* The reply of the upstream provider to a non-stream call
Reply == <<"o", "k">>

\* create_message passes the request's session; chat_completions passes None
Session(p) == p.endpoint = "canonical"

\* The model id _canonical_handler is given: chat_completions (line 263) builds
\* its canonical request with the prefix put in front of an id that lacks it
CanonModel(p) ==
    IF p.endpoint = "openai" /\ ~startswith(p.model, Prefix)
    THEN Prefix \o p.model
    ELSE p.model

\* The title is the first user message, never cut
TitleVerbatim(msgs) ==
    LET users == SelectSeq(msgs, LAMBDA x : x.role = "user")
    IN  IF users = <<>> THEN <<None>> ELSE users[1].content

\* Lines 81-87: the content of the first message with role "user", cut to 100
\* characters and "..." when it is longer; None without such a message
RECURSIVE Title(_)
Title(msgs) ==
    IF msgs = <<>> THEN <<None>>
    ELSE IF Head(msgs).role = "user"
         THEN IF Len(Head(msgs).content) > TitleLimit
              THEN SubSeq(Head(msgs).content, 1, TitleLimit) \o <<".", ".", ".">>
              ELSE Head(msgs).content
         ELSE Title(Tail(msgs))

\* No incoming message is stored
SaveIncomingNothing(db, conv, msgs, rid) == db

\* Lines 98-107: every incoming message is stored, in order
RECURSIVE SaveIncoming(_, _, _, _)
SaveIncoming(db, conv, msgs, rid) ==
    IF msgs = <<>> THEN db
    ELSE SaveIncoming(create_chat_message(db, conv, Head(msgs).role,
                                          Head(msgs).content, rid),
                      conv, Tail(msgs), rid)

\* Lines 72-77: the conversation the request names, when the id parses as a
\* UUID and the row exists.  No owner is compared here.
Resolves(db, p) == p.conversation_id \in DOMAIN db.c

\* Lines 68-107 for a request with a session: the conversation is resolved, or
\* created under the id `fresh`, and the incoming messages are stored
RecordIncoming(db, p, fresh, rid) ==
    LET conv == IF Resolves(db, p) THEN p.conversation_id ELSE fresh
        db1 == IF Resolves(db, p) THEN db
               ELSE create_conversation(db, fresh, Title(p.messages),
                                        KeyHash(p.api_key))
    IN  [conv |-> conv, db |-> SaveIncoming(db1, conv, p.messages, rid)]

\* What the client gets when the handler raises: FastAPI's 500
ServerError == [status |-> 500, body |-> NoBody]

\* send_usage is called: the report is started
ReportUsage(r, is_stream) ==
    usage_log' = Append(usage_log,
                        [rid |-> r, stream |-> is_stream,
                         events |-> Len(events[r]),
                         delivered |-> response[r].status # 0])

\* History: a live record is stored under the request's idempotency key
RecordExists(p) == p.idem_key # None /\ CacheHit(p.idem_key)

\* The cache is never consulted
CachedNever(p) == FALSE

\* The cache is consulted for every request that carries a key
CachedAnyRequest(p) == p.idem_key # None /\ CacheHit(p.idem_key)

\* Lines 51-54, the cached body is returned
Cached(p) == p.idem_key # None /\ ~p.stream /\ CacheHit(p.idem_key)

\* Line 79: the handler creates a conversation
NeedsConversation(p) == Session(p) /\ ~Cached(p) /\ ~Resolves(DB, p)

\* _canonical_handler, lines 46-107 and, for a non-stream request, up to the
\* await of provider.generate (line 191).  `fresh` is the uuid4 of a
\* conversation it may create.
Canonical_Start(r, p, fresh) ==
    /\ pc[r] = "idle"
    /\ p.endpoint = "canonical" \/ ~p.stream
    /\ NeedsConversation(p) => fresh \in FreshIds(DB)
    /\ Admit(p.api_key)
    /\ rq' = [rq EXCEPT ![r] = p]
    /\ UNCHANGED << now, rate_setting, usage_url, arrivals, waiting, consec_fail,
                    memory_cache, events, usage_log, convVars >>
    /\ IF Cached(p)
       THEN \* lines 51-54
            /\ response' = [response EXCEPT ![r] =
                   [status |-> 200, body |-> get_cached_response(p.idem_key)]]
            /\ pc' = [pc EXCEPT ![r] = "done"]
            /\ UNCHANGED << breakerVars, dbVars, loc, contacts >>
       ELSE LET rec == IF Session(p) THEN RecordIncoming(DB, p, fresh, r)
                       ELSE [conv |-> None, db |-> DB]
            IN  /\ SetDB(rec.db)
                /\ IF p.stream
                   THEN \* line 179: the response starts, event_gen has not run
                        /\ pc' = [pc EXCEPT ![r] = "stream_start"]
                        /\ loc' = [loc EXCEPT ![r] =
                               [LocInit EXCEPT !.conversation_id = rec.conv,
                                               !.provider = resolve_provider(CanonModel(p)).provider,
                                               !.model = resolve_provider(CanonModel(p)).normalized,
                                               !.hit = RecordExists(p)]]
                        /\ UNCHANGED << breakerVars, contacts, response >>
                   ELSE \* line 191
                        /\ CallProvider("generate")
                        /\ IF BreakerRejects
                           THEN /\ pc' = [pc EXCEPT ![r] = "done"]
                                /\ response' = [response EXCEPT ![r] = ServerError]
                                /\ loc' = [loc EXCEPT ![r] =
                                       [LocInit EXCEPT !.conversation_id = rec.conv,
                                                       !.provider = resolve_provider(CanonModel(p)).provider,
                                                       !.model = resolve_provider(CanonModel(p)).normalized,
                                                       !.attempts = StopAfterAttempt]]
                                /\ UNCHANGED contacts
                           ELSE /\ pc' = [pc EXCEPT ![r] = "provider"]
                                /\ contacts' = contacts + 1
                                /\ loc' = [loc EXCEPT ![r] =
                                       [LocInit EXCEPT !.conversation_id = rec.conv,
                                                       !.provider = resolve_provider(CanonModel(p)).provider,
                                                       !.model = resolve_provider(CanonModel(p)).normalized,
                                                       !.attempts =
                                                           AttemptsMade(CallRaises("generate")),
                                                       !.res_id = contacts + 1]]
                                /\ UNCHANGED response

\* The database takes a message whatever its conversation_id
ForeignKeyIgnored(db, conv) == TRUE

\* The row of the conversation the handler holds is still there: the insert of
\* a message obeys the foreign key chatmessage.conversation_id
ForeignKeyHolds(db, conv) == conv \in DOMAIN db.c

\* Lines 191-235, the upstream call succeeded: the assistant message is stored,
\* the body is built and cached, and send_usage is awaited
Generate_Success(r) ==
    /\ pc[r] = "provider"
    /\ consec_fail' = 0
    /\ loc' = [loc EXCEPT ![r].outcome = "ok"]
    /\ UNCHANGED << now, rate_setting, usage_url, limiterVars, breakerVars,
                    contacts, rq, events, convVars >>
    /\ LET p == rq[r]
           conv == loc[r].conversation_id
           body == [id |-> loc[r].res_id, content |-> Reply,
                    conversation_id |-> conv]
       IN  IF Session(p) /\ conv # None /\ ~ForeignKeyHolds(DB, conv)
           THEN /\ pc' = [pc EXCEPT ![r] = "done"]
                /\ response' = [response EXCEPT ![r] = ServerError]
                /\ UNCHANGED << dbVars, memory_cache, usage_log >>
           ELSE /\ IF Session(p) /\ conv # None
                   THEN SetDB(create_chat_message(DB, conv, "assistant", Reply, r))
                   ELSE UNCHANGED dbVars
                /\ IF p.idem_key # None
                   THEN set_cached_response(p.idem_key, body)
                   ELSE UNCHANGED memory_cache
                /\ ReportUsage(r, FALSE)
                /\ IF usage_url
                   THEN /\ pc' = [pc EXCEPT ![r] = "usage"]
                        /\ UNCHANGED response
                   ELSE /\ pc' = [pc EXCEPT ![r] = "done"]
                        /\ response' = [response EXCEPT ![r] =
                               [status |-> 200, body |-> body]]

\* The failure undoes what the request has stored: its conversation goes, and
\* the messages in it
Generate_Failure_RollsBack(r) ==
    /\ pc[r] = "provider"
    /\ consec_fail' = consec_fail + 1
    /\ pc' = [pc EXCEPT ![r] = "done"]
    /\ response' = [response EXCEPT ![r] = ServerError]
    /\ loc' = [loc EXCEPT ![r].outcome = "error"]
    /\ IF loc[r].conversation_id \in DOMAIN conversations
       THEN SetDB(delete_conversation(DB, loc[r].conversation_id))
       ELSE UNCHANGED dbVars
    /\ UNCHANGED << now, rate_setting, usage_url, limiterVars, breakerVars,
                    contacts, memory_cache, rq, events, usage_log, convVars >>

\* What the awaited provider call raises: the provider's rejection of the
\* request (an unknown model id, a bad parameter) or a transient failure
ErrorClasses == {"client", "transient"}

\* Line 191, the upstream call failed: the exception, of either class, leaves
\* the handler
Generate_Failure(r) ==
    /\ pc[r] = "provider"
    /\ consec_fail' = consec_fail + 1
    /\ pc' = [pc EXCEPT ![r] = "done"]
    /\ response' = [response EXCEPT ![r] = ServerError]
    /\ \E c \in ErrorClasses :
           loc' = [loc EXCEPT ![r].outcome = "error", ![r].error_class = c]
    /\ UNCHANGED << now, rate_setting, usage_url, limiterVars, breakerVars,
                    contacts, memory_cache, dbVars, rq, events, usage_log,
                    convVars >>

\* Lines 227-235: send_usage returns (its failures are caught inside it) and
\* the handler returns the body
Usage_Return(r) ==
    /\ pc[r] = "usage"
    /\ pc' = [pc EXCEPT ![r] = "done"]
    /\ response' = [response EXCEPT ![r] =
           [status |-> 200,
            body |-> [id |-> loc[r].res_id, content |-> Reply,
                      conversation_id |-> loc[r].conversation_id]]]
    /\ UNCHANGED << now, rate_setting, usage_url, limiterVars, breakerVars,
                    consec_fail, contacts, memory_cache, dbVars, rq, loc,
                    events, usage_log, convVars >>

\* ------------------------------------------------ the streamed response
\* The wire events: a data chunk, an error event, the timeout event of
\* _stream_with_timeout, and the sentinel "data: [DONE]"
ChunkEvent(delta, with_cid, conv) ==
    [kind |-> "chunk", delta |-> delta,
     conversation_id |-> IF with_cid THEN conv ELSE None, message |-> None]

ErrorEvent(e) ==
    [kind |-> "error", delta |-> <<>>, conversation_id |-> None, message |-> e]

TimeoutEvent ==
    [kind |-> "timeout", delta |-> <<>>, conversation_id |-> None,
     message |-> "Stream timeout exceeded"]

DoneEvent ==
    [kind |-> "done", delta |-> <<>>, conversation_id |-> None, message |-> None]

Deltas == {<<>>, <<"x">>, <<"y">>}

Emit(r, e) == events' = [events EXCEPT ![r] = Append(@, e)]

\* chat_completions, lines 270-332: the OpenAI-compatible stream is admitted
\* and its response starts; nothing is stored and no cache is read
OpenAI_Stream_Start(r, p) ==
    /\ pc[r] = "idle"
    /\ p.endpoint = "openai" /\ p.stream
    /\ Admit(p.api_key)
    /\ rq' = [rq EXCEPT ![r] = p]
    /\ pc' = [pc EXCEPT ![r] = "stream_start"]
    /\ loc' = [loc EXCEPT ![r] =
           [LocInit EXCEPT !.hit = RecordExists(p),
                           !.provider = resolve_provider(CanonModel(p)).provider,
                           !.model = CanonModel(p)]]
    /\ UNCHANGED << now, rate_setting, usage_url, arrivals, waiting, breakerVars,
                    consec_fail, contacts, memory_cache, dbVars, events,
                    response, usage_log, convVars >>

\* Lines 116 and 285, the first pull: provider.generate_stream(req) is called and
\* the generator it returns is awaited for its first chunk.  A rejecting
\* breaker raises into "except Exception".
Stream_Open(r) ==
    /\ pc[r] = "stream_start"
    /\ CallProvider("generate_stream")
    /\ response' = [response EXCEPT ![r] = [status |-> 200, body |-> NoBody]]
    /\ IF BreakerRejects
       THEN /\ Emit(r, ErrorEvent("CircuitBreakerError"))
            /\ pc' = [pc EXCEPT ![r] = "after_error"]
            /\ loc' = [loc EXCEPT ![r].attempts = StopAfterAttempt]
            /\ UNCHANGED contacts
       ELSE /\ pc' = [pc EXCEPT ![r] = "stream_pull"]
            /\ contacts' = contacts + 1
            /\ loc' = [loc EXCEPT ![r].attempts =
                                      AttemptsMade(CallRaises("generate_stream"))]
            /\ UNCHANGED events
    /\ UNCHANGED << now, rate_setting, usage_url, limiterVars, consec_fail,
                    memory_cache, dbVars, rq, usage_log, convVars >>

\* Line 129: the chunk carries conversation_id
CarriesId(conv, tokens) == conv # None /\ tokens = 1

\* The text kept for storing is the last delta only
Stream_Chunk_KeepsLast(r, delta) ==
    /\ pc[r] = "stream_pull"
    /\ loc[r].pulled < MaxChunks
    /\ LET tokens == IF delta # <<>> THEN loc[r].tokens + 1 ELSE loc[r].tokens
           conv == loc[r].conversation_id
       IN  /\ loc' = [loc EXCEPT ![r].tokens = tokens,
                                 ![r].full_content = delta,
                                 ![r].pulled = @ + 1]
           /\ Emit(r, ChunkEvent(delta,
                                 rq[r].endpoint = "canonical"
                                     /\ CarriesId(conv, tokens),
                                 conv))
    /\ UNCHANGED << now, rate_setting, usage_url, limiterVars, breakerVars,
                    consec_fail, contacts, memory_cache, dbVars, pc, rq,
                    response, usage_log, convVars >>

\* Lines 116-131 and 285-299: the provider delivers a chunk, it is counted,
\* accumulated and sent
Stream_Chunk(r, delta) ==
    /\ pc[r] = "stream_pull"
    /\ loc[r].pulled < MaxChunks
    /\ LET tokens == IF delta # <<>> THEN loc[r].tokens + 1 ELSE loc[r].tokens
           conv == loc[r].conversation_id
       IN  /\ loc' = [loc EXCEPT ![r].tokens = tokens,
                                 ![r].full_content = @ \o delta,
                                 ![r].pulled = @ + 1]
           /\ Emit(r, ChunkEvent(delta,
                                 rq[r].endpoint = "canonical"
                                     /\ CarriesId(conv, tokens),
                                 conv))
    /\ UNCHANGED << now, rate_setting, usage_url, limiterVars, breakerVars,
                    consec_fail, contacts, memory_cache, dbVars, pc, rq,
                    response, usage_log, convVars >>

\* Lines 134 and 300: the provider's sequence is exhausted, the sentinel is sent
Stream_End(r) ==
    /\ pc[r] = "stream_pull"
    /\ Emit(r, DoneEvent)
    /\ pc' = [pc EXCEPT ![r] = "finally"]
    /\ consec_fail' = 0
    /\ UNCHANGED << now, rate_setting, usage_url, limiterVars, breakerVars,
                    contacts, memory_cache, dbVars, rq, loc, response,
                    usage_log, convVars >>

\* The failed provider call is made again, up to stop_after_attempt(4), and
\* nothing is sent
Stream_Error_Retried(r, e) ==
    /\ pc[r] = "stream_pull"
    /\ loc[r].attempts < StopAfterAttempt
    /\ loc' = [loc EXCEPT ![r].attempts = @ + 1]
    /\ contacts' = contacts + 1
    /\ consec_fail' = consec_fail + 1
    /\ UNCHANGED << now, rate_setting, usage_url, limiterVars, breakerVars,
                    memory_cache, dbVars, pc, rq, events, response,
                    usage_log, convVars >>

\* Lines 136-143 and 301-310: the provider raises, the error event is sent with
\* str(e) in it
Stream_Error(r, e) ==
    /\ pc[r] = "stream_pull"
    /\ Emit(r, ErrorEvent(e))
    /\ pc' = [pc EXCEPT ![r] = "after_error"]
    /\ consec_fail' = consec_fail + 1
    /\ UNCHANGED << now, rate_setting, usage_url, limiterVars, breakerVars,
                    contacts, memory_cache, dbVars, rq, loc, response,
                    usage_log, convVars >>

\* Lines 144 and 311: the sentinel after the error event
Stream_ErrorDone(r) ==
    /\ pc[r] = "after_error"
    /\ Emit(r, DoneEvent)
    /\ pc' = [pc EXCEPT ![r] = "finally"]
    /\ UNCHANGED << now, rate_setting, usage_url, limiterVars, breakerVars,
                    consec_fail, contacts, memory_cache, dbVars, rq, loc,
                    response, usage_log, convVars >>

\* event_gen is left: _stream_with_timeout sees its end, or, when the deadline
\* has cancelled the task inside the generator, TimeoutError, and then sends
\* the timeout event (lines 41-43).  A generator that is being finalized after
\* the response was cut has nobody to send to.
GenExit(r, expired) ==
    IF loc[r].aborted
    THEN /\ UNCHANGED events
         /\ pc' = [pc EXCEPT ![r] = "closed"]
    ELSE IF expired
    THEN /\ Emit(r, TimeoutEvent)
         /\ pc' = [pc EXCEPT ![r] = "timeout_done"]
    ELSE /\ UNCHANGED events
         /\ pc' = [pc EXCEPT ![r] = "closed"]

\* The finally blocks, lines 145-177 and 312-323: the canonical stream stores
\* the accumulated text through a fresh session (a failure is caught), then
\* send_usage is called and awaited.  `expired`: a CancelledError is passing.
RunFinally(r, expired) ==
    LET conv == loc[r].conversation_id
        content == loc[r].full_content
        stored == /\ rq[r].endpoint = "canonical"
                  /\ conv # None
                  /\ content # <<>>
                  /\ ForeignKeyHolds(DB, conv)
    IN  /\ IF stored
           THEN SetDB(create_chat_message(DB, conv, "assistant", content, r))
           ELSE UNCHANGED dbVars
        /\ loc' = [loc EXCEPT ![r].expired = expired,
                              ![r].saved = stored,
                              ![r].saved_at = Len(events[r])]
        /\ ReportUsage(r, TRUE)
        /\ IF usage_url
           THEN /\ pc' = [pc EXCEPT ![r] = "stream_usage"]
                /\ UNCHANGED events
           ELSE GenExit(r, expired)

\* The generator is resumed after its sentinel and runs its finally block
Stream_Finally(r) ==
    /\ pc[r] = "finally"
    /\ RunFinally(r, FALSE)
    /\ UNCHANGED << now, rate_setting, usage_url, limiterVars, breakerVars,
                    consec_fail, contacts, memory_cache, rq, response, convVars >>

\* Lines 38-40: the deadline fires while event_gen awaits the provider's next
\* chunk.  CancelledError passes "except Exception" and runs the finally block.
Stream_Deadline(r) ==
    /\ pc[r] = "stream_pull"
    /\ ~loc[r].expired
    /\ RunFinally(r, TRUE)
    /\ UNCHANGED << now, rate_setting, usage_url, limiterVars, breakerVars,
                    consec_fail, contacts, memory_cache, rq, response, convVars >>

\* send_usage returns into the finally block, which ends
Stream_UsageReturn(r) ==
    /\ pc[r] = "stream_usage"
    /\ GenExit(r, loc[r].expired)
    /\ UNCHANGED << now, rate_setting, usage_url, limiterVars, breakerVars,
                    consec_fail, contacts, memory_cache, dbVars, rq, loc,
                    response, usage_log, convVars >>

\* Lines 38-43: the deadline fires while the finally block awaits send_usage.
\* CancelledError passes the "except Exception" of send_usage and of the
\* finally block, and the wrapper sends its timeout event.
Stream_UsageDeadline(r) ==
    /\ pc[r] = "stream_usage"
    /\ ~loc[r].expired
    /\ loc' = [loc EXCEPT ![r].expired = TRUE]
    /\ Emit(r, TimeoutEvent)
    /\ pc' = [pc EXCEPT ![r] = "timeout_done"]
    /\ UNCHANGED << now, rate_setting, usage_url, limiterVars, breakerVars,
                    consec_fail, contacts, memory_cache, dbVars, rq,
                    response, usage_log, convVars >>

\* The generator is suspended at a yield while StreamingResponse (lines
\* 179-187) awaits the send of the event to the client
Sending(r) ==
    \/ pc[r] = "stream_pull" /\ loc[r].pulled > 0
    \/ pc[r] \in {"after_error", "finally"}

\* Lines 38-40 and 179-187: the deadline fires while the event just yielded is
\* being sent.  asyncio.timeout cancels the task, CancelledError is raised at
\* the send, outside _stream_with_timeout: the response is cut, nothing more is
\* sent.
Stream_SendDeadline(r) ==
    /\ Sending(r)
    /\ ~loc[r].expired
    /\ loc' = [loc EXCEPT ![r].expired = TRUE, ![r].aborted = TRUE]
    /\ pc' = [pc EXCEPT ![r] = "aborted"]
    /\ UNCHANGED << now, rate_setting, usage_url, limiterVars, breakerVars,
                    consec_fail, contacts, memory_cache, dbVars, rq, events,
                    response, usage_log, convVars >>

\* The abandoned generator is finalized (aclose): GeneratorExit at its yield
\* passes "except Exception" and runs the finally block, lines 145-177
Stream_Finalize(r) ==
    /\ pc[r] = "aborted"
    /\ RunFinally(r, TRUE)
    /\ UNCHANGED << now, rate_setting, usage_url, limiterVars, breakerVars,
                    consec_fail, contacts, memory_cache, rq, response, convVars >>

\* Line 44: the sentinel after the timeout event
Stream_TimeoutDone(r) ==
    /\ pc[r] = "timeout_done"
    /\ Emit(r, DoneEvent)
    /\ pc' = [pc EXCEPT ![r] = "closed"]
    /\ UNCHANGED << now, rate_setting, usage_url, limiterVars, breakerVars,
                    consec_fail, contacts, memory_cache, dbVars, rq, loc,
                    response, usage_log, convVars >>

\* --------------------------------------------- api/routes/conversations.py
\* No owner is compared: nobody is denied
AccessDeniedNever(owner, api_key_hash) == FALSE

\* The check of lines 84, 143 and 179: the stored owner hash is non-empty and
\* is not the requester's
AccessDenied(owner, api_key_hash) == owner # "" /\ owner # api_key_hash

\* uuid.UUID(conversation_id) succeeds
ValidUUID(id) == id \in ConvIds

\* The rows of `ids`, latest updated_at first (order_by updated_at desc)
RECURSIVE ByUpdatedDesc(_, _)
ByUpdatedDesc(db, ids) ==
    IF ids = {} THEN <<>>
    ELSE LET top == CHOOSE c \in ids :
                        \A d \in ids : db.c[d].updated_at <= db.c[c].updated_at
         IN  <<top>> \o ByUpdatedDesc(db, ids \ {top})

\* .offset(skip).limit(limit)
Page(seq, skip, limit) ==
    SubSeq(seq, skip + 1, IF Len(seq) < skip + limit THEN Len(seq) ELSE skip + limit)

\* crud.get_conversations: the rows are filtered when api_key_hash is non-empty
get_conversations(db, api_key_hash, skip, limit) ==
    Page(ByUpdatedDesc(db, {c \in DOMAIN db.c :
                               api_key_hash = "" \/ db.c[c].owner = api_key_hash}),
         skip, limit)

\* The response of a conversation endpoint, with the requester's hash.  History:
\* `foreign`, whether the request named an existing conversation whose stored
\* owner hash is non-empty and differs from the requester's; `changed`, whether
\* the tables differ after the request.
Answered(op, hash, foreign, status, listed, db) ==
    /\ conv_ops < MaxConvOps
    /\ conv_ops' = conv_ops + 1
    /\ SetDB(db)
    /\ conv_resp' = [op |-> op, hash |-> hash, foreign |-> foreign,
                     status |-> status, listed |-> listed, changed |-> db # DB]
    /\ UNCHANGED << now, rate_setting, usage_url, limiterVars, breakerVars,
                    consec_fail, contacts, memory_cache, taskVars, usage_log >>

\* list_conversations, lines 18-54: the conversations of the requester's hash
Conv_List(header, skip, limit) ==
    LET h == KeyHash(ApiKey(header))
        rows == get_conversations(DB, h, skip, limit)
    IN  Answered("list", h, FALSE, 200,
                 [i \in 1..Len(rows) |->
                     [id |-> rows[i], api_key_hash |-> conversations[rows[i]].owner]],
                 DB)

\* The status the checks of an endpoint give before it acts: 400 for an id that
\* is no UUID, 404 for no such row, 403 for another owner, else 200
Checked(id, h) ==
    IF ~ValidUUID(id) THEN 400
    ELSE IF id \notin DOMAIN conversations THEN 404
    ELSE IF AccessDenied(conversations[id].owner, h) THEN 403
    ELSE 200

Foreign(id, h) ==
    /\ id \in DOMAIN conversations
    /\ conversations[id].owner # ""
    /\ conversations[id].owner # h

\* get_conversation_history, lines 57-118
Conv_Read(header, id) ==
    LET h == KeyHash(ApiKey(header))
    IN  Answered("read", h, Foreign(id, h), Checked(id, h), <<>>, DB)

\* update_conversation_title, lines 121-155
Conv_Update(header, id, title) ==
    LET h == KeyHash(ApiKey(header))
    IN  Answered("update", h, Foreign(id, h), Checked(id, h), <<>>,
                 IF Checked(id, h) = 200
                 THEN update_conversation(DB, id, title) ELSE DB)

\* delete_conversation_endpoint, lines 158-190
Conv_Delete(header, id) ==
    LET h == KeyHash(ApiKey(header))
    IN  Answered("delete", h, Foreign(id, h), Checked(id, h), <<>>,
                 IF Checked(id, h) = 200
                 THEN delete_conversation(DB, id) ELSE DB)

\* ------------------------------------------------------------ initial state
NoConvResp ==
    [op |-> None, hash |-> None, foreign |-> FALSE, status |-> 0,
     listed |-> <<>>, changed |-> FALSE]

Hi == <<"h", "i">>

InitCommon ==
    /\ now = 0
    /\ limiters = EmptyDict
    /\ arrivals = 0
    /\ waiting = [k \in Keys |-> 0]
    /\ admitted = <<>>
    /\ cb_state = "closed"
    /\ cb_counter = 0
    /\ cb_opened_at = 0
    /\ consec_fail = 0
    /\ contacts = 0
    /\ memory_cache = EmptyDict
    /\ conversations = EmptyDict
    /\ chat_messages = <<>>
    /\ db_clock = 1
    /\ pc = [r \in Reqs |-> "idle"]
    /\ rq = [r \in Reqs |-> NoRequest]
    /\ loc = [r \in Reqs |-> LocInit]
    /\ events = [r \in Reqs |-> <<>>]
    /\ response = [r \in Reqs |-> NoResponse]
    /\ usage_log = <<>>
    /\ conv_ops = 0
    /\ conv_resp = NoConvResp

\* ------------------------------------- specification of one streamed request
StreamPayloads ==
    [endpoint : {"canonical", "openai"}, api_key : {"alice"}, idem_key : {None},
     stream : {TRUE}, conversation_id : {None},
     messages : {<< [role |-> "user", content |-> Hi] >>},
     model : {DefaultModel}]

InitStream ==
    /\ InitCommon
    /\ rate_setting = 2
    /\ usage_url \in BOOLEAN

NextStream ==
    \E r \in {"r1"} :
        \/ \E p \in StreamPayloads, fresh \in ConvIds : Canonical_Start(r, p, fresh)
        \/ \E p \in StreamPayloads : OpenAI_Stream_Start(r, p)
        \/ Stream_Open(r)
        \/ \E d \in Deltas : Stream_Chunk(r, d)
        \/ Stream_End(r)
        \/ \E e \in Exceptions : Stream_Error(r, e)
        \/ Stream_ErrorDone(r)
        \/ Stream_Finally(r)
        \/ Stream_Deadline(r)
        \/ Stream_UsageReturn(r)
        \/ Stream_UsageDeadline(r)
        \/ Stream_TimeoutDone(r)
        \/ Stream_SendDeadline(r)
        \/ Stream_Finalize(r)

SpecStream == InitStream /\ [][NextStream]_vars

\* ------------------------- specification of two overlapping non-stream requests
IdemPayloads ==
    [endpoint : {"canonical", "openai"}, api_key : {"alice"}, idem_key : {"K"},
     stream : {FALSE}, conversation_id : {None},
     messages : {<< [role |-> "user", content |-> Hi] >>},
     model : {DefaultModel}]

InitIdem ==
    /\ InitCommon
    /\ rate_setting = 2
    /\ usage_url \in BOOLEAN

NextIdem ==
    \E r \in Reqs :
        \/ \E p \in IdemPayloads, fresh \in ConvIds : Canonical_Start(r, p, fresh)
        \/ Generate_Success(r)
        \/ Generate_Failure(r)
        \/ Usage_Return(r)

SpecIdem == InitIdem /\ [][NextIdem]_vars

\* ------------------ specification of the conversation endpoints and chat requests
ConvPayloads ==
    [endpoint : {"canonical"}, api_key : {"alice", "bob"}, idem_key : {None},
     stream : {FALSE}, conversation_id : {None, "c1"},
     messages : {<< [role |-> "user", content |-> Hi] >>},
     model : {DefaultModel}]

NewTitle == <<"t">>

InitConv ==
    /\ InitCommon
    /\ rate_setting = 2
    /\ usage_url = FALSE

NextConv ==
    \/ \E r \in Reqs :
        \/ \E p \in ConvPayloads, fresh \in ConvIds : Canonical_Start(r, p, fresh)
        \/ Generate_Success(r)
        \/ Generate_Failure(r)
    \/ \E h \in Headers :
        \/ \E skip \in 0..1, limit \in 1..2 : Conv_List(h, skip, limit)
        \/ \E id \in ConvIds \cup {"bad"} :
            \/ Conv_Read(h, id)
            \/ Conv_Update(h, id, NewTitle)
            \/ Conv_Delete(h, id)

SpecConv == InitConv /\ [][NextConv]_vars

\* -------------------------------------------- specification of the limiter
\* Time passes
Tick ==
    /\ now + TickStep <= MaxTime
    /\ now' = now + TickStep
    /\ UNCHANGED << rate_setting, usage_url, limiterVars, breakerVars,
                    consec_fail, contacts, memory_cache, dbVars, taskVars,
                    usage_log, convVars >>

\* messages.py lines 48-49 and 272-273: a request under `key` enters
\* "async with limiter"; it is admitted at once when the bucket has room and
\* suspended in acquire() otherwise
RL_Enter(key) ==
    /\ arrivals < MaxArrivals
    /\ arrivals' = arrivals + 1
    /\ IF has_capacity(get_limiter(key))
       THEN Admit(key) /\ UNCHANGED waiting
       ELSE /\ waiting' = [waiting EXCEPT ![key] = @ + 1]
            /\ limiters' = Put(limiters, key, Leak(get_limiter(key)))
            /\ UNCHANGED admitted
    /\ UNCHANGED << now, rate_setting, usage_url, breakerVars, consec_fail,
                    contacts, memory_cache, dbVars, taskVars, usage_log,
                    convVars >>

\* A task suspended in acquire() checks again, finds room and is admitted
RL_Resume(key) ==
    /\ waiting[key] > 0
    /\ Admit(key)
    /\ waiting' = [waiting EXCEPT ![key] = @ - 1]
    /\ UNCHANGED << now, rate_setting, usage_url, arrivals, breakerVars,
                    consec_fail, contacts, memory_cache, dbVars, taskVars,
                    usage_log, convVars >>

RateSettings == {0, 1, 2, 3}

RateKeys == {"alice", "bob"}

InitRate ==
    /\ InitCommon
    /\ rate_setting \in RateSettings
    /\ usage_url = FALSE

NextRate ==
    \/ Tick
    \/ \E k \in RateKeys : RL_Enter(k)
    \/ \E k \in RateKeys : RL_Resume(k)

SpecRate == InitRate /\ [][NextRate]_vars

\* ------------------------------ specification of requests that wait for admission
\* A limiter after `d` more time units have passed.  Draining in two steps is
\* draining in one, so the limiter is kept as if it had been checked now.
Aged(lim, d) == Leak([lim EXCEPT !.last_check = @ - d])

\* Time passes without end.  Past MaxTime the clock's origin moves instead of
\* its reading: the buckets drain for TickStep and `now` (with the readings in
\* `admitted`) stays, which no limiter can tell from time passing.
Live_Tick ==
    /\ IF now + TickStep <= MaxTime
       THEN now' = now + TickStep /\ UNCHANGED limiters
       ELSE /\ now' = now
            /\ limiters' = [k \in DOMAIN limiters |-> Aged(limiters[k], TickStep)]
    /\ UNCHANGED << rate_setting, usage_url, arrivals, waiting, admitted,
                    breakerVars, consec_fail, contacts, memory_cache, dbVars,
                    taskVars, usage_log, convVars >>

\* The requests of this specification all come under one key
LiveKeys == {"alice"}

NextLive ==
    \/ Live_Tick
    \/ \E k \in LiveKeys : RL_Enter(k)
    \/ \E k \in LiveKeys : RL_Resume(k)

\* The event loop's clock advances, and a task suspended in acquire() wakes
\* after at most 1 / rate_per_sec and checks the bucket again
SpecLive ==
    /\ InitRate
    /\ [][NextLive]_vars
    /\ WF_vars(Live_Tick)
    /\ \A k \in LiveKeys : WF_vars(RL_Resume(k))

\* The admissions under the key of admission i in the window of TIME_PERIOD
\* time units that starts with it
InWindow(i) ==
    {j \in 1..Len(admitted) :
        /\ admitted[j][1] = admitted[i][1]
        /\ admitted[i][2] <= admitted[j][2]
        /\ admitted[j][2] < admitted[i][2] + TIME_PERIOD}

\* C4 as claimed: no window of 60 time units holds more than R admissions of
\* one key.
C4_AtMostRatePerWindow ==
    \A i \in 1..Len(admitted) : Cardinality(InWindow(i)) <= Rate

\* C4 as amended: no window of 60 time units holds more than 2R - 1 admissions
\* of one key (the bucket's capacity R, and what drains in less than a window).
C4_AtMostBurstPlusDrain ==
    \A i \in 1..Len(admitted) : Cardinality(InWindow(i)) <= 2 * Rate - 1

\* C4: a window that holds 2R - 1 admissions with R = 2: more than R.
C4_Witness ==
    /\ Rate = 2
    /\ \E i \in 1..Len(admitted) : Cardinality(InWindow(i)) = 2 * Rate - 1

\* --------------------------------------------------------------- claims
Count(seq, kind) == Len(SelectSeq(seq, LAMBDA e : e.kind = kind))

Chunks(r) == SelectSeq(events[r], LAMBDA e : e.kind = "chunk")

\* C1: a streamed response delivers exactly one terminal sentinel, whichever
\* way the stream ends: never more than one, and one once the stream is closed.
C1_ExactlyOneSentinel ==
    \A r \in Reqs :
        /\ Count(events[r], "done") <= 1
        /\ pc[r] = "closed" => Count(events[r], "done") = 1

\* C2: in a canonical stream the first chunk carries conversation_id iff a
\* conversation was resolved, and no later chunk carries it.
C2_ConversationIdOnFirstChunkOnly ==
    \A r \in Reqs :
        (rq[r].endpoint = "canonical" /\ Chunks(r) # <<>>) =>
            /\ (Chunks(r)[1].conversation_id # None)
                   <=> (loc[r].conversation_id # None)
            /\ \A i \in 2..Len(Chunks(r)) : Chunks(r)[i].conversation_id = None

\* The requests that carry idempotency key `key` on the non-stream path
Reusing(key) == {r \in Reqs : rq[r].idem_key = key /\ ~rq[r].stream}

\* C3: the non-stream requests that reuse an idempotency key all get the same
\* body, and the provider is invoked at most once for them in total.
C3_IdempotentReuse ==
    \A key \in IdemKeys :
        /\ \A a, b \in Reusing(key) :
               (response[a].status = 200 /\ response[b].status = 200)
                   => response[a].body = response[b].body
        /\ Cardinality({r \in Reusing(key) : loc[r].res_id # 0}) <= 1

\* C5: the breaker counts every failed provider attempt, a success resets the
\* count, and the breaker is open once CB_FAIL_MAX failures have occurred with
\* no success in between.
C5_OpensAtFailMax ==
    /\ cb_state = "closed" => cb_counter = consec_fail
    /\ consec_fail >= CB_FAIL_MAX => cb_state = "open"

\* The breaker never leaves its closed state and never counts a failure: every
\* call through it returns the coroutine, which it records as a success.
BreakerStaysClosed == cb_state = "closed" /\ cb_counter = 0

\* C8: an invocation of generate makes at most 4 attempts, and one that ends in
\* an error has made all 4.
C8_RetriesUpToFour ==
    \A r \in Reqs :
        /\ loc[r].attempts <= StopAfterAttempt
        /\ (~rq[r].stream /\ loc[r].outcome = "error")
               => loc[r].attempts = StopAfterAttempt

MessagesOf(msgs, c) == SelectSeq(msgs, LAMBDA x : x.conv = c)

\* C9: a step changes a conversation that has a non-empty owner hash, or its
\* messages, only when the request taking the step presents that hash.
C9_OnlyOwnerMutates ==
    [][\A c \in DOMAIN conversations :
          ( /\ conversations[c].owner # ""
            /\ \/ c \notin DOMAIN conversations'
               \/ conversations'[c] # conversations[c]
               \/ MessagesOf(chat_messages', c) # MessagesOf(chat_messages, c) )
          => \/ conv_ops' # conv_ops /\ conv_resp'.hash = conversations[c].owner
             \/ \E r \in Reqs :
                    /\ pc'[r] # pc[r]
                    /\ KeyHash(rq'[r].api_key) = conversations[c].owner]_vars

BuiltBody(r) ==
    [id |-> loc[r].res_id, content |-> Reply,
     conversation_id |-> loc[r].conversation_id]

\* C11: a request whose provider call succeeded gets its 200 response with the
\* body built from the provider's reply, whether or not a persistence step
\* of it failed.
C11_PersistenceFailureSwallowed ==
    \A r \in Reqs :
        (pc[r] = "done" /\ loc[r].outcome = "ok")
            => response[r] = [status |-> 200, body |-> BuiltBody(r)]

\* C12: while the usage report of a non-stream request is in flight its
\* response has already been returned, and a stream emits no event after its
\* usage report was started.
C12_UsageAfterDelivery ==
    /\ \A r \in Reqs : pc[r] = "usage" => response[r].status # 0
    /\ \A i \in 1..Len(usage_log) :
           (usage_log[i].stream /\ usage_url)
               => Len(events[usage_log[i].rid]) = usage_log[i].events

\* ------------------------- specification of non-stream chat requests that
\* create conversations
Sys == <<"s">>

\* Contents of TitleLimit and of TitleLimit + 1 characters
Exact == [i \in 1..TitleLimit |-> "a"]

Long == [i \in 1..(TitleLimit + 1) |-> "a"]

ChatMessageLists ==
    { << [role |-> "user", content |-> Hi] >>,
      << [role |-> "system", content |-> Sys], [role |-> "user", content |-> Hi] >>,
      << [role |-> "system", content |-> Sys] >>,
      << [role |-> "user", content |-> Exact] >>,
      << [role |-> "system", content |-> Sys], [role |-> "user", content |-> Long],
         [role |-> "user", content |-> Hi] >> }

ChatPayloads ==
    [endpoint : {"canonical"}, api_key : {"alice", "bob"}, idem_key : {None},
     stream : {FALSE}, conversation_id : {None, "bad"},
     messages : ChatMessageLists,
     model : {DefaultModel}]

InitChat ==
    /\ InitCommon
    /\ rate_setting = 2
    /\ usage_url \in BOOLEAN

NextChat ==
    \E r \in Reqs :
        \/ \E p \in ChatPayloads, fresh \in ConvIds : Canonical_Start(r, p, fresh)
        \/ Generate_Success(r)
        \/ Generate_Failure(r)
        \/ Usage_Return(r)

SpecChat == InitChat /\ [][NextChat]_vars

\* The stored messages of request r, in the order of their creation
StoredBy(r) == SelectSeq(chat_messages, LAMBDA x : x.rid = r)

\* The incoming messages of request r as rows of conversation c
IncomingRows(r, c) ==
    [i \in 1..Len(rq[r].messages) |->
        [conv |-> c, role |-> rq[r].messages[i].role,
         content |-> rq[r].messages[i].content, rid |-> r]]

C14_TitleOfNewConversation ==
    \A r \in Reqs :
        pc[r] # "idle" =>
            LET users == SelectSeq(rq[r].messages, LAMBDA x : x.role = "user")
                title == conversations[loc[r].conversation_id].title
            IN  IF users = <<>> THEN title = <<None>>
                ELSE IF Len(users[1].content) <= 100
                     THEN title = users[1].content
                     ELSE /\ Len(title) = 103
                          /\ SubSeq(title, 1, 100) = SubSeq(users[1].content, 1, 100)
                          /\ SubSeq(title, 101, 103) = <<".", ".", ".">>

\* C14: one conversation got a cut title of 103 characters, another the
\* verbatim title of 100 characters.
C14_Witness ==
    /\ \E c \in DOMAIN conversations : Len(conversations[c].title) = 103
    /\ \E c \in DOMAIN conversations : conversations[c].title = Exact

\* An event whose JSON has an "error" member: the error event of the
\* generators and the timeout event of _stream_with_timeout
IsErrorEvent(e) == e.kind \in {"error", "timeout"}

\* The positions of the error events of request r
ErrorsAt(r) == {i \in 1..Len(events[r]) : IsErrorEvent(events[r][i])}

\* C15: a stream whose provider sequence failed emits no data chunk after an
\* error event, and once it is closed it has emitted exactly one error event,
\* immediately followed by the terminal sentinel.
C15_OneErrorThenSentinel ==
    \A r \in Reqs :
        (rq[r].stream /\ Count(events[r], "error") > 0) =>
            /\ \A i \in ErrorsAt(r), j \in 1..Len(events[r]) :
                   events[r][j].kind = "chunk" => j < i
            /\ pc[r] = "closed" =>
                   /\ Cardinality(ErrorsAt(r)) = 1
                   /\ \A i \in ErrorsAt(r) :
                          /\ i < Len(events[r])
                          /\ events[r][i + 1].kind = "done"

\* C16: once the deadline of a stream has expired no further chunk is pulled,
\* and the closed stream ends with exactly one timeout event followed by the
\* terminal sentinel.
C16_TimeoutEventThenSentinel ==
    \A r \in Reqs :
        loc[r].expired =>
            /\ pc[r] # "stream_pull"
            /\ pc[r] = "closed" =>
                   /\ Count(events[r], "timeout") = 1
                   /\ Len(events[r]) >= 2
                   /\ events[r][Len(events[r]) - 1].kind = "timeout"
                   /\ events[r][Len(events[r])].kind = "done"

\* C17: a streamed request whose upstream stream failed before its first chunk
\* has made all 4 attempts, and the breaker has counted the failures.
C17_EstablishmentRetried ==
    \A r \in Reqs :
        (rq[r].stream /\ loc[r].pulled = 0 /\ Count(events[r], "error") > 0) =>
            /\ loc[r].attempts = StopAfterAttempt
            /\ cb_counter > 0 \/ cb_state = "open"

\* C18: a streamed request that has delivered a chunk has invoked the provider
\* exactly once, whatever failed afterwards, and a failure after the chunk is
\* in the stream as one error event that follows every chunk.
C18_NoRetryAfterFirstChunk ==
    \A r \in Reqs :
        (rq[r].stream /\ loc[r].pulled > 0) =>
            /\ loc[r].attempts = 1
            /\ contacts = 1
            /\ consec_fail > 0 =>
                   /\ Count(events[r], "error") = 1
                   /\ \A i, j \in 1..Len(events[r]) :
                          (events[r][i].kind = "error" /\ events[r][j].kind = "chunk")
                              => j < i

\* C18: the provider failed after two chunks; the stream has the error event
\* and the provider was invoked once.
C18_Witness ==
    \E r \in Reqs :
        /\ rq[r].stream /\ loc[r].pulled = 2 /\ consec_fail = 1
        /\ Count(events[r], "error") = 1
        /\ contacts = 1
        /\ pc[r] = "closed"

\* C19: no error event sent to a client carries the text of the provider's
\* exception.
C19_NoRawExceptionText ==
    \A r \in Reqs : \A i \in 1..Len(events[r]) :
        events[r][i].kind = "error" => events[r][i].message \notin Exceptions

\* ------------- specification of a non-stream and a streamed request that
\* carry the same idempotency key
MixedPayloads ==
    [endpoint : {"canonical", "openai"}, api_key : {"alice"}, idem_key : {"K"},
     stream : BOOLEAN, conversation_id : {None},
     messages : {<< [role |-> "user", content |-> Hi] >>},
     model : {DefaultModel}]

InitMixed ==
    /\ InitCommon
    /\ rate_setting = 2
    /\ usage_url = FALSE

NextMixed ==
    \/ \E p \in MixedPayloads, fresh \in ConvIds :
           ~p.stream /\ Canonical_Start("r1", p, fresh)
    \/ Generate_Success("r1")
    \/ Generate_Failure("r1")
    \/ \E p \in MixedPayloads, fresh \in ConvIds :
           p.stream /\ Canonical_Start("r2", p, fresh)
    \/ \E p \in MixedPayloads : OpenAI_Stream_Start("r2", p)
    \/ Stream_Open("r2")
    \/ \E d \in Deltas : Stream_Chunk("r2", d)
    \/ Stream_End("r2")
    \/ \E e \in Exceptions : Stream_Error("r2", e)
    \/ Stream_ErrorDone("r2")
    \/ Stream_Finally("r2")
    \/ Stream_Deadline("r2")
    \/ Stream_TimeoutDone("r2")
    \/ Stream_SendDeadline("r2")
    \/ Stream_Finalize("r2")

SpecMixed == InitMixed /\ [][NextMixed]_vars

\* C20: a streamed request is never answered from the idempotency store and
\* has invoked the provider once its generator has started, also when a
\* record exists for its key; and no step of a streamed request changes the
\* store.
C20_StreamBypassesIdempotency ==
    /\ [](\A r \in Reqs :
             (rq[r].stream /\ pc[r] # "idle") =>
                 /\ pc[r] # "done"
                 /\ response[r].body = NoBody
                 /\ pc[r] # "stream_start" => loc[r].attempts >= 1)
    /\ [][\A r \in Reqs :
             (rq'[r].stream /\ pc'[r] # pc[r]) => memory_cache' = memory_cache]_vars

\* C20: a streamed request that started when a record existed for its key has
\* invoked the provider and is closed, and the record is the one the
\* non-stream request stored.
C20_Witness ==
    \E r \in Reqs :
        /\ rq[r].stream /\ rq[r].idem_key = "K" /\ loc[r].hit
        /\ pc[r] = "closed" /\ loc[r].attempts = 1
        /\ contacts = 2
        /\ get_cached_response("K").id = 1

\* C21: the record of an idempotency key is first-writer-wins: while a record
\* stored under a key is within its time to live, no step replaces its body.
C21_FirstWriterWins ==
    [][\A key \in DOMAIN memory_cache :
           Live(memory_cache, key)
               => /\ key \in DOMAIN memory_cache'
                  /\ memory_cache'[key].raw = memory_cache[key].raw]_vars

\* C22: the assistant message of a streamed request is stored only after the
\* terminal sentinel has been sent: when it was stored, the sentinel was among
\* the events already sent.
C22_PersistedAfterSentinel ==
    \A r \in Reqs :
        loc[r].saved =>
            \E i \in 1..loc[r].saved_at : events[r][i].kind = "done"

\* Requests that entered "async with limiter" and are suspended in acquire()
Suspended == waiting["alice"] + waiting["bob"]

Contacted == {r \in Reqs : loc[r].res_id # 0}

\* C25: a request whose provider call fails with a client-class error is
\* answered with the error at once and is never retried: one attempt was made
\* for it, and the provider was contacted once for each request that reached it.
C25_ClientErrorNotRetried ==
    /\ \A r \in Reqs :
           loc[r].error_class = "client"
               => /\ loc[r].attempts = 1
                  /\ pc[r] = "done"
                  /\ response[r] = ServerError
    /\ contacts = Cardinality(Contacted)

\* C25: a request was rejected by the provider with a client-class error after
\* the provider had been contacted once.
C25_Witness ==
    /\ loc["r1"].error_class = "client"
    /\ loc["r1"].attempts = 1
    /\ response["r1"] = ServerError
    /\ pc["r2"] = "idle"
    /\ contacts = 1

\* --------------------------- specification of requests that name any model id
\* What a model id may start with: nothing, the prefix, the prefix without its
\* colon, in another case, after a blank, twice, and another provider's prefix
Heads ==
    {<<>>, Prefix, <<"o", "p", "e", "n", "a", "i">>,
     <<"O", "p", "e", "n", "a", "i", ":">>, <<" ">> \o Prefix, Prefix \o Prefix,
     <<"a", "n", "t", ":">>, <<":">>}

\* What follows: nothing, a name, and a name with the prefix inside it
Tails == {<<>>, <<"g">>, DefaultModel, <<"g">> \o Prefix}

ModelIds == {h \o t : h \in Heads, t \in Tails}

ResolvePayloads ==
    [endpoint : {"canonical", "openai"}, api_key : {"alice"}, idem_key : {None},
     stream : BOOLEAN, conversation_id : {None},
     messages : {<< [role |-> "user", content |-> Hi] >>},
     model : ModelIds]

InitResolve ==
    /\ InitCommon
    /\ rate_setting = 2
    /\ usage_url = FALSE

NextResolve ==
    \E r \in {"r1"} :
        \/ \E p \in ResolvePayloads, fresh \in ConvIds : Canonical_Start(r, p, fresh)
        \/ \E p \in ResolvePayloads : OpenAI_Stream_Start(r, p)
        \/ Generate_Success(r)
        \/ Generate_Failure(r)

SpecResolve == InitResolve /\ [][NextResolve]_vars

\* C26: resolve_provider never fails: every request, whatever model id it
\* names, goes on with the default provider and with its id unchanged when it
\* starts with "openai:" and with "openai:" put in front of it otherwise;
\* resolving the id it goes on with gives that id again.
C26_ResolveTotalAndIdempotent ==
    \A r \in Reqs :
        pc[r] # "idle" =>
            LET m == rq[r].model
                n == loc[r].model
            IN  /\ loc[r].provider = "OpenAIProvider"
                /\ startswith(m, Prefix) => n = m
                /\ ~startswith(m, Prefix) => n = Prefix \o m
                /\ resolve_provider(n).normalized = n

\* C26: a request of the OpenAI-compatible endpoint names an id with another
\* provider's prefix; the id was resolved twice and carries "openai:" once.
C26_Witness ==
    /\ pc["r1"] = "provider"
    /\ rq["r1"].endpoint = "openai"
    /\ rq["r1"].model = <<"a", "n", "t", ":", "g">>
    /\ loc["r1"].model = Prefix \o <<"a", "n", "t", ":", "g">>

\* C27: the registry holds one limiter per key: a key's limiter is created on
\* first use and is afterwards never replaced or removed, and the limiters of
\* different keys are different objects.
C27_OneLimiterPerKey ==
    /\ [](\A j, k \in DOMAIN limiters : j # k => limiters[j].id # limiters[k].id)
    /\ [][\A k \in DOMAIN limiters :
              /\ k \in DOMAIN limiters'
              /\ limiters'[k].id = limiters[k].id]_vars

\* C27: two keys have a limiter each, and three requests under one of them
\* went through its limiter, the first one created.
C27_Witness ==
    /\ DOMAIN limiters = RateKeys
    /\ limiters["alice"].id = 1
    /\ limiters["bob"].id = 2
    /\ Cardinality({i \in 1..Len(admitted) : admitted[i][1] = "alice"}) = 3

\* ------------ specification of non-stream requests that differ and share a key
ReusePayloads ==
    [endpoint : {"canonical", "openai"}, api_key : {"alice", "bob"},
     idem_key : {"K"}, stream : {FALSE}, conversation_id : {None},
     messages : {<< [role |-> "user", content |-> Hi] >>,
                 << [role |-> "user", content |-> Sys] >>},
     model : {DefaultModel, Prefix \o <<"g">>}]

InitReuse ==
    /\ InitCommon
    /\ rate_setting = 2
    /\ usage_url = FALSE

NextReuse ==
    \E r \in Reqs :
        \/ \E p \in ReusePayloads, fresh \in ConvIds : Canonical_Start(r, p, fresh)
        \/ Generate_Success(r)
        \/ Generate_Failure(r)

SpecReuse == InitReuse /\ [][NextReuse]_vars

\* Request r starts in this step while a live record is stored under its key
HitStep(r) ==
    /\ pc[r] = "idle"
    /\ pc'[r] # "idle"
    /\ RecordExists(rq'[r])

\* C28: a non-stream request whose idempotency key hits the cache is answered
\* with the cached body, whatever its API key, model and messages, and changes
\* nothing else: no provider call, the breaker, the conversations, the
\* messages and the cache record as they were, no usage report.
C28_CacheHitChangesNothing ==
    [][\A r \in Reqs :
           HitStep(r) =>
               /\ response'[r] =
                      [status |-> 200,
                       body |-> Loads(memory_cache[rq'[r].idem_key].raw)]
               /\ pc'[r] = "done"
               /\ UNCHANGED << contacts, breakerVars, consec_fail, dbVars,
                               memory_cache, usage_log, loc >>]_vars

\* C28: the second request differs from the first in API key, model, messages
\* and endpoint, and was answered with the first one's body without a second
\* provider call.
C28_Witness ==
    /\ pc["r1"] = "done" /\ pc["r2"] = "done"
    /\ loc["r1"].outcome = "ok"
    /\ rq["r1"].api_key # rq["r2"].api_key
    /\ rq["r1"].model # rq["r2"].model
    /\ rq["r1"].messages # rq["r2"].messages
    /\ rq["r1"].endpoint # rq["r2"].endpoint
    /\ loc["r2"].res_id = 0
    /\ response["r2"] = response["r1"]
    /\ response["r2"].body.id = loc["r1"].res_id
    /\ contacts = 1

\* C29: a non-stream request whose provider call failed has ended in an error;
\* its conversation and its incoming messages are stored and nothing else of
\* it is: no assistant message, no record of its response under its
\* idempotency key, no usage report.
C29_FailureKeepsIncomingOnly ==
    \A r \in Reqs :
        (~rq[r].stream /\ loc[r].outcome = "error") =>
            /\ pc[r] = "done"
            /\ response[r] = ServerError
            /\ Session(rq[r]) =>
                   /\ loc[r].conversation_id \in DOMAIN conversations
                   /\ StoredBy(r) = IncomingRows(r, loc[r].conversation_id)
            /\ ~Session(rq[r]) => StoredBy(r) = <<>>
            /\ \A k \in DOMAIN memory_cache :
                   Loads(memory_cache[k].raw).id # loc[r].res_id
            /\ \A i \in 1..Len(usage_log) : usage_log[i].rid # r

\* C29: a canonical request with an idempotency key failed at the provider
\* after the other request with that key had succeeded and had been recorded.
C29_Witness ==
    /\ loc["r1"].outcome = "error"
    /\ rq["r1"].endpoint = "canonical"
    /\ rq["r1"].idem_key = "K"
    /\ Len(StoredBy("r1")) = 1
    /\ loc["r2"].outcome = "ok"
    /\ "K" \in DOMAIN memory_cache
    /\ Len(usage_log) = 1

\* The text sent in the events `evs`, in order
RECURSIVE SentText(_)
SentText(evs) ==
    IF evs = <<>> THEN <<>>
    ELSE SentText(SubSeq(evs, 1, Len(evs) - 1)) \o evs[Len(evs)].delta

\* The assistant messages stored for request r
AssistantRows(r) ==
    SelectSeq(chat_messages, LAMBDA x : x.rid = r /\ x.role = "assistant")

ReportsOf(r) == SelectSeq(usage_log, LAMBDA u : u.rid = r)

\* Exactly one usage report is attempted for a streamed response whose
\* generator was started: never more than one, and one once it is closed
OneReportPerStream ==
    \A r \in Reqs :
        rq[r].stream =>
            /\ Len(ReportsOf(r)) <= 1
            /\ pc[r] = "closed" => Len(ReportsOf(r)) = 1

\* C31: exactly one usage report is attempted for a streamed response whose
\* generator was started, however it ends, and the report, whatever becomes of
\* it, adds nothing to a stream that has sent its sentinel: the events are
\* those sent when the report was attempted, and the sentinel is one.
C31_OneReportNoEffectOnStream ==
    /\ OneReportPerStream
    /\ \A r \in Reqs :
           \A i \in 1..Len(ReportsOf(r)) :
               LET sent == SubSeq(events[r], 1, ReportsOf(r)[i].events)
               IN  Count(sent, "done") = 1 =>
                       /\ events[r] = sent
                       /\ Count(events[r], "done") = 1

\* --------- specification of a request whose conversation is deleted meanwhile
DeletePayloads ==
    [endpoint : {"canonical"}, api_key : {"alice"}, idem_key : {None},
     stream : BOOLEAN, conversation_id : {None},
     messages : {<< [role |-> "user", content |-> Hi] >>},
     model : {DefaultModel}]

InitDelete ==
    /\ InitCommon
    /\ rate_setting = 2
    /\ usage_url = FALSE

NextDelete ==
    \/ \E r \in {"r1"} :
        \/ \E p \in DeletePayloads, fresh \in ConvIds : Canonical_Start(r, p, fresh)
        \/ Generate_Success(r)
        \/ Generate_Failure(r)
        \/ Stream_Open(r)
        \/ \E d \in Deltas : Stream_Chunk(r, d)
        \/ Stream_End(r)
        \/ \E e \in Exceptions : Stream_Error(r, e)
        \/ Stream_ErrorDone(r)
        \/ Stream_Finally(r)
        \/ Stream_Deadline(r)
        \/ Stream_TimeoutDone(r)
        \/ Stream_SendDeadline(r)
        \/ Stream_Finalize(r)
    \/ \E h \in Headers, id \in ConvIds : Conv_Delete(h, id)

SpecDelete == InitDelete /\ [][NextDelete]_vars

\* C32: every stored message references an existing conversation: none is
\* left of a deleted conversation, and none is added to it afterwards by a
\* request that was in flight when it was deleted.
C32_MessagesReferenceConversations ==
    \A i \in 1..Len(chat_messages) :
        chat_messages[i].conv \in DOMAIN conversations

\* C32: the conversation of a stream was deleted, with the incoming message
\* in it, while the stream was running; the stream has ended with text to
\* store, and no message is stored.
C32_Witness ==
    /\ conv_resp.op = "delete" /\ conv_resp.status = 200 /\ conv_resp.changed
    /\ rq["r1"].stream /\ pc["r1"] = "closed"
    /\ loc["r1"].full_content # <<>>
    /\ loc["r1"].conversation_id \notin DOMAIN conversations
    /\ chat_messages = <<>>

=============================================================================
